---- MODULE Spec2Model ----
(***************************************************************************)
(* The motherlib client (src/src/motherlib/client.py, model.py) as a state *)
(* machine: one APIClient, one caller issuing the public operations, and a *)
(* server that answers every transport attempt as it likes.                *)
(*                                                                         *)
(* Text (URIs, tags, references, header values) is a sequence of           *)
(* one-character strings, so that join, split and concatenation are        *)
(* computed character by character as Python computes them.                *)
(***************************************************************************)
EXTENDS Integers, Sequences, FiniteSets, TLC

\* Bounds of the model.
MaxRetries == 3
MaxTags == 2
MaxRecords == 2

----------------------------------------------------------------------------
(* Text helpers *)

\* '/blob/', the separator of put_latest's location.split (client.py:147)
BLOB_SEP == <<"/", "b", "l", "o", "b", "/">>
\* '/cas/', the other marker the wire contract names (spec section 6)
CAS_SEP == <<"/", "c", "a", "s", "/">>
\* the f-string prefixes of the three endpoints
BLOB_URI == <<"/", "b", "l", "o", "b", "/">>
LATEST_URI == <<"/", "l", "a", "t", "e", "s", "t", "/">>
HISTORY_URI == <<"/", "h", "i", "s", "t", "o", "r", "y", "/">>

\* Python's  sep.join(list)
RECURSIVE join(_, _)
join(sep, list) ==
    IF Len(list) = 0 THEN <<>>
    ELSE IF Len(list) = 1 THEN list[1]
    ELSE list[1] \o sep \o join(sep, Tail(list))

\* Python's  s.find(sep), 1-based; 0 when sep does not occur
find(s, sep) ==
    LET occ == {i \in 1..(Len(s) - Len(sep) + 1) : SubSeq(s, i, i + Len(sep) - 1) = sep}
    IN IF occ = {} THEN 0 ELSE CHOOSE i \in occ : \A j \in occ : i <= j

\* Python's  s.split(sep): the pieces between the occurrences of sep, found
\* left to right without overlap
RECURSIVE split(_, _)
split(s, sep) ==
    LET i == find(s, sep)
    IN IF i = 0 THEN <<s>>
       ELSE <<SubSeq(s, 1, i - 1)>> \o split(SubSeq(s, i + Len(sep), Len(s)), sep)

----------------------------------------------------------------------------
(* Python values *)

None == [some |-> FALSE]
Some(v) == [some |-> TRUE, v |-> v]

\* what a call can give back
Returned(v) == [status |-> "returned", value |-> v]
Raised(e) == [status |-> "raised", exc |-> e]
Pending == [status |-> "pending"]

----------------------------------------------------------------------------
(* Inputs: tags, references, server responses *)

LOG == <<"l", "o", "g">>
DEV == <<"d", "e", "v">>
\* a caller may pass '' as a tag: nothing in the client forbids it
EMPTY_TAG == <<>>
TagValues == {LOG, DEV}

RECURSIVE SeqsUpTo(_, _)
SeqsUpTo(S, n) ==
    IF n = 0 THEN {<<>>}
    ELSE LET shorter == SeqsUpTo(S, n - 1)
         IN shorter \cup {Append(s, x) : s \in {t \in shorter : Len(t) = n - 1}, x \in S}

TagLists == SeqsUpTo(TagValues, MaxTags) \cup {<<EMPTY_TAG>>}

REF1 == <<"a", "1">>
REF2 == <<"b", "2">>
Refs == {REF1, REF2}

\* JSON values, as response.json() hands them to the client
JList(items) == [t |-> "list", items |-> items]
JObject(fields) == [t |-> "object", fields |-> fields]
JString(s) == [t |-> "string", s |-> s]
JNumber == [t |-> "number"]
JNull == [t |-> "null"]

\* "2020-10-29T00:38:50+00:00"
TS1 == <<"2", "0", "2", "0", "-", "1", "0", "-", "2", "9", "T", "0", "0",
         ":", "3", "8", ":", "5", "0", "+", "0", "0", ":", "0", "0">>
\* "2020-10-29T00:38:23+00:00"
TS2 == <<"2", "0", "2", "0", "-", "1", "0", "-", "2", "9", "T", "0", "0",
         ":", "3", "8", ":", "2", "3", "+", "0", "0", ":", "0", "0">>
\* "yesterday"
BADTS == <<"y", "e", "s", "t", "e", "r", "d", "a", "y">>

\* elements a server may put in a list body
RecordItems ==
    { JObject([tags |-> <<LOG, DEV>>, ref |-> REF1, created |-> TS1]),
      JObject([tags |-> <<LOG, LOG>>, ref |-> REF2, created |-> TS2]) }
BadItems ==
    { JObject([tags |-> <<LOG>>, ref |-> REF1]),
      JObject([tags |-> <<LOG>>, ref |-> REF1, created |-> BADTS]) }
Items == RecordItems \cup BadItems

\* a response body: bytes that are not JSON, or the text of a JSON value
Bytes(raw) == [t |-> "bytes", raw |-> raw]
Json(val) == [t |-> "json", val |-> val]
EmptyBody == Bytes("")

OkBodies ==
    {EmptyBody, Bytes("content")}
    \cup {Json(JList(items)) : items \in SeqsUpTo(Items, MaxRecords)}
    \cup {Json(JObject(<<>>)), Json(JObject([ref |-> REF1])), Json(JNumber),
          Json(JNull), Json(JString(<<>>)), Json(JString(<<"x">>))}

\* error bodies: the documented object with and without the optional err,
\* an object without kind, a JSON list, and bytes that are not JSON
ErrBodies(code) ==
    { Json(JObject([err |-> "boom", kind |-> "internal", message |-> "failed",
                    statuscode |-> code])),
      Json(JObject([kind |-> "internal", message |-> "failed", statuscode |-> code])),
      Json(JObject([err |-> "boom", message |-> "failed", statuscode |-> code])),
      Json(JList(<<>>)),
      Bytes("<html>") }

LocPrefixes == { <<"m">>, <<"m", "/", "b", "l", "o", "b">>,
                 <<"m", "/", "b", "l", "o", "b", "/", "x">> }
LocSuffixes == { REF1, <<>> }
Locations == { p \o m \o s : p \in LocPrefixes, m \in {BLOB_SEP, CAS_SEP}, s \in LocSuffixes }

Response(code, body, headers) == [status_code |-> code, body |-> body, headers |-> headers]
NoHeaders == [Location |-> None]

OkResponses ==
    {Response(200, b, NoHeaders) : b \in OkBodies}
    \cup {Response(204, EmptyBody, [Location |-> Some(l)]) : l \in Locations}
ErrorCodes == {401, 500}
ErrResponses == UNION {{Response(c, b, NoHeaders) : b \in ErrBodies(c)} : c \in ErrorCodes}

\* what one transport attempt can end in: requests.request returns a
\* response, or raises ConnectionError, or raises ReadTimeout (a Timeout
\* that is no ConnectionError)
NoResponse == Response(0, EmptyBody, NoHeaders)
ServerOutcomes ==
    {[net |-> "response", response |-> r] : r \in OkResponses \cup ErrResponses}
    \cup {[net |-> "ConnectionError", response |-> NoResponse],
          [net |-> "ReadTimeout", response |-> NoResponse]}

----------------------------------------------------------------------------
(* model.py *)

\* the decimal digits, and the number a run of them writes
DigitOf ==
    [c \in {"0", "1", "2", "3", "4", "5", "6", "7", "8", "9"} |->
        CASE c = "0" -> 0 [] c = "1" -> 1 [] c = "2" -> 2 [] c = "3" -> 3 [] c = "4" -> 4
          [] c = "5" -> 5 [] c = "6" -> 6 [] c = "7" -> 7 [] c = "8" -> 8 [] c = "9" -> 9]
RECURSIVE int(_)
int(ds) ==
    IF Len(ds) = 0 THEN 0
    ELSE 10 * int(SubSeq(ds, 1, Len(ds) - 1)) + DigitOf[ds[Len(ds)]]

\* the last index of the run of digits that starts at i
RECURSIVE RunEnd(_, _)
RunEnd(s, i) ==
    IF i + 1 <= Len(s) /\ s[i + 1] \in DOMAIN DigitOf THEN RunEnd(s, i + 1) ELSE i

\* datetime's calendar
is_leap(year) == year % 4 = 0 /\ (year % 100 # 0 \/ year % 400 = 0)
days_in_month(year, month) ==
    IF month = 2 THEN (IF is_leap(year) THEN 29 ELSE 28)
    ELSE IF month \in {4, 6, 9, 11} THEN 30 ELSE 31

\* the character at i of the n matchable characters of s, and whether it
\* is a digit
at(s, n, i) == IF i >= 1 /\ i <= n THEN s[i] ELSE ""
dig(s, n, i) == at(s, n, i) \in DOMAIN DigitOf
num(s, i, k) == int(SubSeq(s, i, i + k - 1))

NoMatch == [matched |-> FALSE]

\* ISO8601_REGEX from position p on, group by group, last group first.
\* (?P<timezone>Z | [-+]hh[:][mm])? and the end of the string
match_timezone(s, n, p, g) ==
    IF p = n + 1 THEN g
    ELSE IF at(s, n, p) = "Z"
         THEN (IF p = n THEN [g EXCEPT !.timezone = "Z"] ELSE NoMatch)
    ELSE IF at(s, n, p) \in {"+", "-"} /\ dig(s, n, p + 1) /\ dig(s, n, p + 2)
         THEN LET c == IF at(s, n, p + 3) = ":" THEN 1 ELSE 0
                  has_tz_minute == dig(s, n, p + 3 + c) /\ dig(s, n, p + 4 + c)
              IN IF p + 2 + c + (IF has_tz_minute THEN 2 ELSE 0) = n
                 THEN [g EXCEPT !.timezone = "offset",
                                !.tz_sign = at(s, n, p),
                                !.tz_hour = num(s, p + 1, 2),
                                !.tz_minute = IF has_tz_minute THEN num(s, p + 3 + c, 2) ELSE 0]
                 ELSE NoMatch
    ELSE NoMatch

\* ([.,](?P<second_fraction>[0-9]+))?
match_fraction(s, n, p, g) ==
    IF at(s, n, p) \in {".", ","} /\ dig(s, n, p + 1)
    THEN LET fend == RunEnd(SubSeq(s, 1, n), p + 1)
         IN match_timezone(s, n, fend + 1, [g EXCEPT !.second_fraction = SubSeq(s, p + 1, fend)])
    ELSE match_timezone(s, n, p, g)

\* (:?(?P<second>[0-9]{1,2}) fraction)?
match_second(s, n, p, g) ==
    LET c == IF at(s, n, p) = ":" THEN 1 ELSE 0
        slen == IF dig(s, n, p + c + 1) THEN 2 ELSE 1
    IN IF dig(s, n, p + c)
       THEN match_fraction(s, n, p + c + slen, [g EXCEPT !.second = num(s, p + c, slen)])
       ELSE match_timezone(s, n, p, g)

\* (:?(?P<minute>[0-9]{2}))?: two digits that a fraction follows are the
\* second, which is how the expression matches after it has backtracked
match_minute(s, n, p, g) ==
    LET c == IF at(s, n, p) = ":" THEN 1 ELSE 0
    IN IF /\ dig(s, n, p + c) /\ dig(s, n, p + c + 1)
          /\ ~(at(s, n, p + c + 2) \in {".", ","} /\ dig(s, n, p + c + 3))
       THEN match_second(s, n, p + c + 2, [g EXCEPT !.minute = num(s, p + c, 2)])
       ELSE match_second(s, n, p, g)

\* ((?P<separator>[ T])(?P<hour>[0-9]{2}) ...)?
match_time(s, n, p, g) ==
    IF p = n + 1 THEN g
    ELSE IF at(s, n, p) \in {" ", "T"} /\ dig(s, n, p + 1) /\ dig(s, n, p + 2)
         THEN match_minute(s, n, p + 3, [g EXCEPT !.hour = num(s, p + 1, 2)])
    ELSE NoMatch

\* ((-(?P<daydash>[0-9]{1,2}) | (?P<day>[0-9]{2})) ...)?
match_day(s, n, p, g) ==
    IF p = n + 1 THEN g
    ELSE IF at(s, n, p) = "-"
         THEN LET dlen == IF dig(s, n, p + 2) THEN 2 ELSE 1
              IN IF dig(s, n, p + 1)
                 THEN match_time(s, n, p + 1 + dlen, [g EXCEPT !.day = num(s, p + 1, dlen)])
                 ELSE NoMatch
    ELSE IF dig(s, n, p) /\ dig(s, n, p + 1)
         THEN match_time(s, n, p + 2, [g EXCEPT !.day = num(s, p, 2)])
    ELSE NoMatch

\* ((-(?P<monthdash>[0-9]{1,2}) | (?P<month>[0-9]{2})(?!$)) ...)?: a dashed
\* month has one digit when a second digit would leave a single digit for
\* the day
match_month(s, n, g) ==
    IF n = 4 THEN g
    ELSE IF at(s, n, 5) = "-"
         THEN LET mlen == IF dig(s, n, 7) /\ ~(dig(s, n, 8) /\ ~dig(s, n, 9)) THEN 2 ELSE 1
              IN IF dig(s, n, 6)
                 THEN match_day(s, n, 6 + mlen, [g EXCEPT !.month = num(s, 6, mlen)])
                 ELSE NoMatch
    ELSE IF dig(s, n, 5) /\ dig(s, n, 6) /\ n >= 7
         THEN match_day(s, n, 7, [g EXCEPT !.month = num(s, 5, 2)])
    ELSE NoMatch

\* ISO8601_REGEX.match(datestring): the groups of the match, with the
\* defaults parse_date gives the groups that did not take part; $ also
\* matches before a last newline
ISO8601_REGEX(s) ==
    LET n == IF Len(s) >= 1 /\ s[Len(s)] = "\n" THEN Len(s) - 1 ELSE Len(s)
    IN IF dig(s, n, 1) /\ dig(s, n, 2) /\ dig(s, n, 3) /\ dig(s, n, 4)
       THEN match_month(s, n, [matched |-> TRUE, year |-> num(s, 1, 4), month |-> 1,
                               day |-> 1, hour |-> 0, minute |-> 0, second |-> 0,
                               second_fraction |-> <<>>, timezone |-> "", tz_sign |-> "",
                               tz_hour |-> 0, tz_minute |-> 0])
       ELSE NoMatch

\* iso8601.parse_timezone: UTC for Z and for no timezone, else the signed
\* offset in minutes
parse_timezone(groups) ==
    IF groups.timezone # "offset" THEN 0
    ELSE (IF groups.tz_sign = "-" THEN -1 ELSE 1) * (60 * groups.tz_hour + groups.tz_minute)

\* the zeros a fraction starts with
leading_zeros(fraction) ==
    IF \A i \in DOMAIN fraction : fraction[i] = "0" THEN Len(fraction)
    ELSE (CHOOSE i \in DOMAIN fraction :
             fraction[i] # "0" /\ \A k \in 1..(i - 1) : fraction[k] = "0") - 1

\* Decimal's multiplication keeps 28 significant digits (the default
\* context) and rounds half to even: whether the digits of the fraction
\* after the one at last round it up
round_up(fraction, last) ==
    /\ Len(fraction) > last
    /\ \/ DigitOf[fraction[last + 1]] > 5
       \/ /\ DigitOf[fraction[last + 1]] = 5
          /\ \/ \E i \in (last + 2)..Len(fraction) : fraction[i] # "0"
             \/ DigitOf[fraction[last]] % 2 = 1

\* int(Decimal("0.<fraction>") * Decimal("1000000.0")): the first six
\* digits of the fraction, and one more when the rounding carries into them
microsecond(fraction) ==
    int(SubSeq(fraction \o <<"0", "0", "0", "0", "0", "0">>, 1, 6))
    + (IF /\ round_up(fraction, leading_zeros(fraction) + 28)
          /\ \A i \in 7..(leading_zeros(fraction) + 28) : fraction[i] = "9"
       THEN 1 ELSE 0)

\* datetime.datetime(year, month, day, hour, minute, second, microsecond,
\* tzinfo) on the groups of a match: ParseError when datetime refuses the
\* fields; a timezone of a day or more is refused by datetime.timezone
\* with ValueError
datetime(groups, tz) ==
    IF tz >= 24 * 60 \/ tz <= -(24 * 60) THEN [ok |-> FALSE, exc |-> "ValueError"]
    ELSE IF /\ groups.year >= 1
            /\ groups.month \in 1..12
            /\ groups.day \in 1..days_in_month(groups.year, groups.month)
            /\ groups.hour <= 23 /\ groups.minute <= 59 /\ groups.second <= 59
            /\ microsecond(groups.second_fraction) <= 999999
         THEN [ok |-> TRUE,
               v |-> [year |-> groups.year, month |-> groups.month, day |-> groups.day,
                      hour |-> groups.hour, minute |-> groups.minute,
                      second |-> groups.second,
                      microsecond |-> microsecond(groups.second_fraction),
                      utcoffset |-> tz]]
         ELSE [ok |-> FALSE, exc |-> "iso8601.ParseError"]

\* the groups of a match, or ParseError when there is none
groupdict(groups) ==
    IF groups.matched THEN datetime(groups, parse_timezone(groups))
    ELSE [ok |-> FALSE, exc |-> "iso8601.ParseError"]

\* iso8601.parse_date
parse_date(s) == groupdict(ISO8601_REGEX(s))

\* Record.__init__: tags and ref are stored as given, created is parsed
\* unless it is falsy
Record(tags, ref, created) ==
    IF created = <<>> THEN [ok |-> TRUE, rec |-> [tags |-> tags, ref |-> ref, created |-> None]]
    ELSE LET d == parse_date(created)
         IN IF d.ok THEN [ok |-> TRUE, rec |-> [tags |-> tags, ref |-> ref, created |-> Some(d.v)]]
            ELSE [ok |-> FALSE, exc |-> d.exc]

\* Record.unmarshal_json: json['tags'], json['ref'], json['created'] in turn
unmarshal_json(json) ==
    IF json.t # "object" THEN [ok |-> FALSE, exc |-> "TypeError"]
    ELSE IF {"tags", "ref", "created"} \subseteq DOMAIN json.fields
         THEN Record(json.fields.tags, json.fields.ref, json.fields.created)
         ELSE [ok |-> FALSE, exc |-> "KeyError"]

\* Result(content=..., records=...): the class model.py is imported for; a
\* keyword that is not passed is None
Result(content, records) == [t |-> "Result", content |-> content, records |-> records]

----------------------------------------------------------------------------
(* client.py: errors and the two request layers *)

\* requests' Response.raise_for_status raises HTTPError for 4xx and 5xx
raise_for_status(response) == response.status_code >= 400 /\ response.status_code < 600

\* response.json(): the parsed value, or JSONDecodeError
response_json(response) ==
    IF response.body.t = "json" THEN [ok |-> TRUE, val |-> response.body.val]
    ELSE [ok |-> FALSE, exc |-> "JSONDecodeError"]

\* APIError.FromHTTPResponse: error['err'], error['kind'], error['statuscode']
FromHTTPResponse(response) ==
    LET error == response_json(response)
    IN IF ~error.ok THEN Raised(error.exc)
       ELSE IF error.val.t # "object" THEN Raised("TypeError")
       ELSE IF {"err", "kind", "statuscode"} \subseteq DOMAIN error.val.fields
            THEN [status |-> "raised", exc |-> "APIError",
                  err |-> error.val.fields.err,
                  kind |-> error.val.fields.kind,
                  statuscode |-> error.val.fields.statuscode]
            ELSE Raised("KeyError")

\* do_request: one transport round trip, then response.raise_for_status()
do_request(out) ==
    IF out.net = "response"
    THEN IF raise_for_status(out.response)
         THEN [has_exception |-> TRUE, exc |-> "requests.HTTPError", response |-> out.response]
         ELSE [has_exception |-> FALSE, exc |-> "", response |-> out.response]
    ELSE [has_exception |-> TRUE, exc |-> "requests." \o out.net, response |-> NoResponse]

\* retry_on_exception=lambda e: ConnectionError or HTTPError
retry_on_exception(e) == e \in {"requests.ConnectionError", "requests.HTTPError"}

\* a policy that also rejects results, so that a success is retried
should_reject_any(attempt) == TRUE

\* retrying's should_reject: a result is never rejected, an exception is
\* rejected when retry_on_exception says so
should_reject(attempt) == attempt.has_exception /\ retry_on_exception(attempt.exc)

\* stopping one attempt late, > for >=
stop_max_attempt_number_gt(previous_attempt_number, max_attempts) ==
    previous_attempt_number > max_attempts

\* stopping only on the attempt whose number is the budget, == for >=
stop_max_attempt_number_eq(previous_attempt_number, max_attempts) ==
    previous_attempt_number = max_attempts

\* retrying's stop_after_attempt with stop_max_attempt_number=self.retries
stop_max_attempt_number(previous_attempt_number, max_attempts) ==
    previous_attempt_number >= max_attempts

\* APIClient.request: what the operation gets out of self.http.request
APIClient_request(attempt) ==
    IF ~attempt.has_exception THEN [ok |-> TRUE, response |-> attempt.response]
    ELSE IF attempt.exc = "requests.ConnectionError"
         THEN [ok |-> FALSE, raised |-> Raised("ConnectionError")]
    ELSE IF attempt.exc = "requests.HTTPError"
         THEN [ok |-> FALSE, raised |-> FromHTTPResponse(attempt.response)]
    ELSE [ok |-> FALSE, raised |-> Raised(attempt.exc)]

----------------------------------------------------------------------------
(* client.py: what each operation does with the response it got *)

\* iterating a JSON value with  for item in blob
RECURSIVE KeysOf(_)
KeysOf(ks) ==
    IF ks = {} THEN <<>>
    ELSE LET k == CHOOSE x \in ks : TRUE
         IN <<[t |-> "string", key |-> k]>> \o KeysOf(ks \ {k})
iterate(blob) ==
    IF blob.t = "list" THEN [ok |-> TRUE, items |-> blob.items]
    ELSE IF blob.t = "object" THEN [ok |-> TRUE, items |-> KeysOf(DOMAIN blob.fields)]
    ELSE IF blob.t = "string"
         THEN [ok |-> TRUE, items |-> [i \in 1..Len(blob.s) |-> JString(<<blob.s[i]>>)]]
    ELSE [ok |-> FALSE, exc |-> "TypeError"]

\* the loop putting each record in front of the list, insert(0, r) for append(r)
RECURSIVE unmarshal_all_reversed(_)
unmarshal_all_reversed(items) ==
    IF Len(items) = 0 THEN [ok |-> TRUE, records |-> <<>>]
    ELSE LET r == unmarshal_json(items[1])
         IN IF ~r.ok THEN [ok |-> FALSE, exc |-> r.exc]
            ELSE LET rest == unmarshal_all_reversed(Tail(items))
                 IN IF ~rest.ok THEN rest
                    ELSE [ok |-> TRUE, records |-> rest.records \o <<r.rec>>]

\* the loop  for item in ...: r = Record.unmarshal_json(item); records.append(r)
RECURSIVE unmarshal_all(_)
unmarshal_all(items) ==
    IF Len(items) = 0 THEN [ok |-> TRUE, records |-> <<>>]
    ELSE LET r == unmarshal_json(items[1])
         IN IF ~r.ok THEN [ok |-> FALSE, exc |-> r.exc]
            ELSE LET rest == unmarshal_all(Tail(items))
                 IN IF ~rest.ok THEN rest
                    ELSE [ok |-> TRUE, records |-> <<r.rec>> \o rest.records]

\* get_blob after the request: BytesIO(response.content)
get_blob_return(response) == Returned([t |-> "BytesIO", content |-> response.body])

\* put_latest taking the first piece of the split, [0] for [-1]
put_latest_return_first(response) ==
    IF ~response.headers.Location.some THEN Raised("KeyError")
    ELSE Returned([t |-> "str", s |-> split(response.headers.Location.v, BLOB_SEP)[1]])

\* put_latest after the request: location.split('/blob/')[-1]
put_latest_return(response) ==
    IF ~response.headers.Location.some THEN Raised("KeyError")
    ELSE LET location == response.headers.Location.v
             pieces == split(location, BLOB_SEP)
         IN Returned([t |-> "str", s |-> pieces[Len(pieces)]])

\* _get_latest without its except clause, as _get_history is written
_get_latest_return_unguarded(response) ==
    LET blob == response_json(response)
    IN IF ~blob.ok THEN Raised(blob.exc)
       ELSE LET it == iterate(blob.val)
            IN IF ~it.ok THEN Raised(it.exc)
               ELSE LET rs == unmarshal_all(it.items)
                    IN IF ~rs.ok THEN Raised(rs.exc)
                       ELSE Returned(Result(None, Some(rs.records)))

\* _get_latest handing the body over as content next to the records too
_get_latest_return_both(response) ==
    LET blob == response_json(response)
    IN IF ~blob.ok THEN Returned(Result(Some(response.body), None))
       ELSE LET it == iterate(blob.val)
            IN IF ~it.ok THEN Raised(it.exc)
               ELSE LET rs == unmarshal_all(it.items)
                    IN IF ~rs.ok THEN Raised(rs.exc)
                       ELSE Returned(Result(Some(response.body), Some(rs.records)))

\* _get_latest after the request: content when the body is not JSON,
\* records when it is
_get_latest_return(response) ==
    LET blob == response_json(response)
    IN IF ~blob.ok THEN Returned(Result(Some(response.body), None))
       ELSE LET it == iterate(blob.val)
            IN IF ~it.ok THEN Raised(it.exc)
               ELSE LET rs == unmarshal_all(it.items)
                    IN IF ~rs.ok THEN Raised(rs.exc)
                       ELSE Returned(Result(None, Some(rs.records)))

\* _get_history after the request: response.json() is not guarded
_get_history_return(response) ==
    LET blob == response_json(response)
    IN IF ~blob.ok THEN Raised(blob.exc)
       ELSE LET it == iterate(blob.val)
            IN IF ~it.ok THEN Raised(it.exc)
               ELSE LET rs == unmarshal_all(it.items)
                    IN IF ~rs.ok THEN Raised(rs.exc)
                       ELSE Returned([t |-> "list", records |-> rs.records])

\* _delete_history after the request
_delete_history_return(response) == Returned([t |-> "None"])

ExactOps == {"put_latest", "get_latest", "get_history", "delete_history"}
SupersetOps == {"get_superset_latest", "get_superset_history", "delete_superset_history"}
LatestOps == {"get_latest", "get_superset_latest"}
HistoryOps == {"get_history", "get_superset_history"}
DeleteOps == {"delete_history", "delete_superset_history"}

operation_return(op, response) ==
    IF op = "get_blob" THEN get_blob_return(response)
    ELSE IF op = "put_latest" THEN put_latest_return(response)
    ELSE IF op \in LatestOps THEN _get_latest_return(response)
    ELSE IF op \in HistoryOps THEN _get_history_return(response)
    ELSE _delete_history_return(response)

\* the separator appended whatever the tags are
superset_sep_always(tags) == <<"/">>

\* sep = '' if len(tags) == 0 else '/'
superset_sep(tags) == IF Len(tags) = 0 THEN <<>> ELSE <<"/">>

----------------------------------------------------------------------------
(* The state machine *)

VARIABLES
    addr,            \* APIClient.addr
    retries,         \* HTTPClient.retries
    pc,              \* "idle", "requesting" (inside requests.request), "sleeping"
                     \* (between two attempts of the retry loop), "done"
    call,            \* the operation in progress and its arguments
    request,         \* the arguments of requests.request for this call
    attempt_number,  \* retrying's attempt_number
    trace,           \* how each transport attempt of this call ended
    response,        \* the response of the last attempt, once the loop is left
    outcome,         \* what the call gave back to its caller
    default_params,  \* the {} that is the default of APIClient.request's params
    default_headers, \* the {} that is the default of APIClient.request's headers
    th               \* the calls of the other callers, each waiting for its turn

vars == <<addr, retries, pc, call, request, attempt_number, trace, response, outcome,
          default_params, default_headers, th>>

\* what all callers of the client share
shared == <<addr, retries, default_params, default_headers>>

\* a Python dict, as its set of items
EmptyDict == {}
Accept(type) == {<<"Accept", type>>}

Addrs == { <<"m">> }
NoCall == [op |-> "", tags |-> <<>>, ref |-> <<>>]
NoRequest == [method |-> "", url |-> <<>>, params |-> EmptyDict, headers |-> EmptyDict,
              data |-> FALSE]

\* APIClient(addr, retries): HTTPClient(verify=False, retries=retries)
Init ==
    /\ addr \in Addrs
    /\ retries \in 0..MaxRetries
    /\ default_params = EmptyDict
    /\ default_headers = EmptyDict
    /\ th = <<>>
    /\ pc = "idle"
    /\ call = NoCall
    /\ request = NoRequest
    /\ attempt_number = 0
    /\ trace = <<>>
    /\ response = NoResponse
    /\ outcome = Pending

\* APIClient.request that merges the headers it is given into its default
\* dict, which every later call without headers then sends
Send_sharing(method, uri, headers, data) ==
    /\ request' = [method |-> method, url |-> addr \o uri, params |-> default_params,
                   headers |-> headers, data |-> data]
    /\ pc' = "requesting"
    /\ attempt_number' = 1
    /\ trace' = <<>>
    /\ response' = NoResponse
    /\ outcome' = Pending
    /\ default_headers' = default_headers \cup headers
    /\ UNCHANGED <<addr, retries, default_params, th>>

\* self.request(method, uri, headers, data) up to the first do_request();
\* params is never passed, so it is the default dict
Send(method, uri, headers, data) ==
    /\ request' = [method |-> method, url |-> addr \o uri, params |-> default_params,
                   headers |-> headers, data |-> data]
    /\ pc' = "requesting"
    /\ attempt_number' = 1
    /\ trace' = <<>>
    /\ response' = NoResponse
    /\ outcome' = Pending
    /\ UNCHANGED <<shared, th>>

\* an operation that raises before it sends anything
Fail(exc) ==
    /\ request' = NoRequest
    /\ pc' = "done"
    /\ attempt_number' = 0
    /\ trace' = <<>>
    /\ response' = NoResponse
    /\ outcome' = Raised(exc)
    /\ UNCHANGED <<shared, th>>

get_blob(ref) ==
    /\ pc = "idle"
    /\ call' = [op |-> "get_blob", tags |-> <<>>, ref |-> ref]
    /\ Send("GET", BLOB_URI \o ref, Accept("application/octet-stream"), FALSE)

put_latest(tags) ==
    /\ pc = "idle"
    /\ call' = [op |-> "put_latest", tags |-> tags, ref |-> <<>>]
    /\ IF Len(tags) = 0 THEN Fail("ValueError")
       ELSE Send("PUT", LATEST_URI \o join(<<"/">>, tags), default_headers, TRUE)

_get_latest(URI) == Send("GET", LATEST_URI \o URI, Accept("application/json"), FALSE)

get_latest(tags) ==
    /\ pc = "idle"
    /\ call' = [op |-> "get_latest", tags |-> tags, ref |-> <<>>]
    /\ _get_latest(join(<<"/">>, tags))

get_superset_latest(tags) ==
    /\ pc = "idle"
    /\ call' = [op |-> "get_superset_latest", tags |-> tags, ref |-> <<>>]
    /\ _get_latest(join(<<"/">>, tags) \o superset_sep(tags))

\* _get_history sent to the latest endpoint
_get_history_latest(URI) == Send("GET", LATEST_URI \o URI, Accept("application/json"), FALSE)

_get_history(URI) == Send("GET", HISTORY_URI \o URI, Accept("application/json"), FALSE)

get_history(tags) ==
    /\ pc = "idle"
    /\ call' = [op |-> "get_history", tags |-> tags, ref |-> <<>>]
    /\ _get_history(join(<<"/">>, tags))

get_superset_history(tags) ==
    /\ pc = "idle"
    /\ call' = [op |-> "get_superset_history", tags |-> tags, ref |-> <<>>]
    /\ _get_history(join(<<"/">>, tags) \o superset_sep(tags))

_delete_history(URI) == Send("DELETE", HISTORY_URI \o URI, default_headers, FALSE)

delete_history(tags) ==
    /\ pc = "idle"
    /\ call' = [op |-> "delete_history", tags |-> tags, ref |-> <<>>]
    /\ _delete_history(join(<<"/">>, tags))

delete_superset_history(tags) ==
    /\ pc = "idle"
    /\ call' = [op |-> "delete_superset_history", tags |-> tags, ref |-> <<>>]
    /\ _delete_history(join(<<"/">>, tags) \o superset_sep(tags))

\* how one attempt is remembered
Ended(out) == [net |-> out.net, status_code |-> out.response.status_code]

\* HTTPClient.request: the attempt in flight ends, when and as the server
\* chooses; then should_reject and stop of retrying's loop, and, when the
\* loop is left, the rest of APIClient.request and of the operation. A
\* rejected attempt that does not stop the loop leaves attempt_number as it
\* is: the loop sleeps before it counts the next attempt.
HTTPClient_request(out) ==
    /\ pc = "requesting"
    /\   LET attempt == do_request(out)
         IN /\ trace' = Append(trace, Ended(out))
            /\ IF should_reject(attempt)
                  /\ ~stop_max_attempt_number(attempt_number, retries)
               THEN /\ pc' = "sleeping"
                    /\ UNCHANGED <<attempt_number, response, outcome>>
               ELSE LET got == APIClient_request(attempt)
                    IN /\ pc' = "done"
                       /\ response' = attempt.response
                       /\ outcome' = IF got.ok THEN operation_return(call.op, got.response)
                                     ELSE got.raised
                       /\ UNCHANGED attempt_number
    /\ UNCHANGED <<shared, th, call, request>>

\* the rest of the turn of retrying's loop: time.sleep(0.0), which gives
\* the turn to other threads, then attempt_number += 1 and the next
\* do_request()
sleep ==
    /\ pc = "sleeping"
    /\ pc' = "requesting"
    /\ attempt_number' = attempt_number + 1
    /\ UNCHANGED <<shared, th, call, request, trace, response, outcome>>

\* the caller takes the result; the client is ready for the next call
Return ==
    /\ pc = "done"
    /\ pc' = "idle"
    /\ call' = NoCall
    /\ request' = NoRequest
    /\ attempt_number' = 0
    /\ trace' = <<>>
    /\ response' = NoResponse
    /\ outcome' = Pending
    /\ UNCHANGED <<shared, th>>

Next ==
    \/ \E ref \in Refs : get_blob(ref)
    \/ \E tags \in TagLists : put_latest(tags)
    \/ \E tags \in TagLists : get_latest(tags)
    \/ \E tags \in TagLists : get_superset_latest(tags)
    \/ \E tags \in TagLists : get_history(tags)
    \/ \E tags \in TagLists : get_superset_history(tags)
    \/ \E tags \in TagLists : delete_history(tags)
    \/ \E tags \in TagLists : delete_superset_history(tags)
    \/ \E out \in ServerOutcomes : HTTPClient_request(out)
    \/ sleep
    \/ Return

Spec == Init /\ [][Next]_vars

----------------------------------------------------------------------------
(* Several callers on one client *)

ConcRetries == 2

\* what a call keeps for itself: the frames of the operation, of
\* APIClient.request and of HTTPClient.request
Regs == [pc |-> pc, call |-> call, request |-> request,
         attempt_number |-> attempt_number, trace |-> trace,
         response |-> response, outcome |-> outcome]
IdleRegs == [pc |-> "idle", call |-> NoCall, request |-> NoRequest,
             attempt_number |-> 0, trace |-> <<>>,
             response |-> NoResponse, outcome |-> Pending]

\* the scheduler gives the turn to another caller; the client object, and
\* the default dicts of APIClient.request, stay where they are
Switch(i) ==
    /\ th' = [th EXCEPT ![i] = Regs]
    /\ pc' = th[i].pc
    /\ call' = th[i].call
    /\ request' = th[i].request
    /\ attempt_number' = th[i].attempt_number
    /\ trace' = th[i].trace
    /\ response' = th[i].response
    /\ outcome' = th[i].outcome
    /\ UNCHANGED shared

\* one client, and a second caller that has not called yet
ConcInit ==
    /\ addr \in Addrs
    /\ retries \in 0..ConcRetries
    /\ default_params = EmptyDict
    /\ default_headers = EmptyDict
    /\ th = <<IdleRegs>>
    /\ pc = "idle"
    /\ call = NoCall
    /\ request = NoRequest
    /\ attempt_number = 0
    /\ trace = <<>>
    /\ response = NoResponse
    /\ outcome = Pending

\* the arguments and the server behaviours of the interleaved runs
ConcTagLists == {<<>>, <<LOG>>}
ConcOutcomes ==
    { [net |-> "response", response |-> Response(200, Bytes("content"), NoHeaders)],
      [net |-> "response",
       response |-> Response(200, Json(JList(<<JObject([tags |-> <<LOG, DEV>>, ref |-> REF1,
                                                        created |-> TS1])>>)), NoHeaders)],
      [net |-> "response",
       response |-> Response(204, EmptyBody, [Location |-> Some(<<"m">> \o BLOB_SEP \o REF1)])],
      [net |-> "response",
       response |-> Response(500, Json(JObject([err |-> "boom", kind |-> "internal",
                                                message |-> "failed", statuscode |-> 500])),
                             NoHeaders)],
      [net |-> "ConnectionError", response |-> NoResponse],
      [net |-> "ReadTimeout", response |-> NoResponse] }

ConcNext ==
    \/ get_blob(REF1)
    \/ \E tags \in ConcTagLists : put_latest(tags)
    \/ \E tags \in ConcTagLists : get_latest(tags)
    \/ \E tags \in ConcTagLists : get_superset_latest(tags)
    \/ \E tags \in ConcTagLists : get_history(tags)
    \/ \E tags \in ConcTagLists : get_superset_history(tags)
    \/ \E tags \in ConcTagLists : delete_history(tags)
    \/ \E tags \in ConcTagLists : delete_superset_history(tags)
    \/ \E out \in ConcOutcomes : HTTPClient_request(out)
    \/ sleep
    \/ Return
    \/ \E i \in DOMAIN th : Switch(i)

ConcSpec == ConcInit /\ [][ConcNext]_vars

----------------------------------------------------------------------------
(* Vocabulary of the properties *)

\* the requests this call has issued so far
RequestCount == Len(trace)
LastAttempt == trace[Len(trace)]
StatusFailure(a) == a.net = "response" /\ a.status_code >= 400
TransportFailure(a) == a.net \in {"ConnectionError", "ReadTimeout"}
Succeeded(a) == a.net = "response" /\ a.status_code < 400
\* the retry policy's classification (spec section 4.2)
RetryableFailure(a) ==
    \/ a.net = "ConnectionError"
    \/ StatusFailure(a) /\ a.status_code # 401

Range(f) == {f[i] : i \in DOMAIN f}
\* the error body of the wire contract: kind, message, statuscode, and
\* maybe err
DocumentedErrorBody(body) ==
    /\ body.t = "json" /\ body.val.t = "object"
    /\ {"kind", "message", "statuscode"} \subseteq DOMAIN body.val.fields

\* the request's path after the base address, and its part after the endpoint
RequestPath == SubSeq(request.url, Len(addr) + 1, Len(request.url))
EndpointOf(op) ==
    IF op = "get_blob" THEN BLOB_URI
    ELSE IF op \in {"put_latest"} \cup LatestOps THEN LATEST_URI
    ELSE HISTORY_URI
TagPath == SubSeq(RequestPath, Len(EndpointOf(call.op)) + 1, Len(RequestPath))
Sent == request # NoRequest

----------------------------------------------------------------------------
(* C1 .. C10 *)

\* C1: with a retry budget N >= 1, a call whose every attempt fails with a
\* retryable failure (connection failure, or status failure other than 401)
\* issues exactly N requests and then fails with the kind of its last
\* attempt: APIError after a status failure, ConnectionError after a
\* connection failure. The last error response has a documented body.
C1_RetryBudgetExhausted ==
    (pc = "done" /\ retries >= 1 /\ RequestCount >= 1
        /\ (\A i \in 1..RequestCount : RetryableFailure(trace[i]))
        /\ (StatusFailure(LastAttempt) => DocumentedErrorBody(response.body)))
    => /\ RequestCount = retries
       /\ outcome.status = "raised"
       /\ outcome.exc = IF StatusFailure(LastAttempt) THEN "APIError" ELSE "ConnectionError"

\* C2: with a retry budget N > 1, a first attempt answered with 401 is the
\* only request of the call, and the call fails right away.
C2_Unauthorized_NotRetried ==
    (retries > 1 /\ RequestCount >= 1 /\ StatusFailure(trace[1]) /\ trace[1].status_code = 401)
    => (RequestCount = 1 /\ pc = "done" /\ outcome.status = "raised")

\* C3: an exact-match operation called with an empty tag set fails with an
\* invalid-argument error (ValueError) and issues no request.
C3_ExactEmptyTags_Rejected ==
    (pc = "done" /\ call.op \in ExactOps /\ Len(call.tags) = 0)
    => (outcome = Raised("ValueError") /\ RequestCount = 0 /\ ~Sent)

\* a successful latest lookup and what the server said
LatestAnswered ==
    pc = "done" /\ call.op \in LatestOps /\ RequestCount >= 1 /\ Succeeded(LastAttempt)
IsListOfRecords(body) ==
    body.t = "json" /\ body.val.t = "list" /\ Range(body.val.items) \subseteq RecordItems

\* C4: a successful latest lookup whose body is a JSON list of N records
\* returns a Result with N records and no content; one whose body is not
\* JSON returns a Result whose content is the body and which has no records.
C4_ResultDisambiguation ==
    LatestAnswered =>
        /\ IsListOfRecords(response.body) =>
              /\ outcome.status = "returned"
              /\ outcome.value.t = "Result"
              /\ outcome.value.records.some
              /\ Len(outcome.value.records.v) = Len(response.body.val.items)
              /\ ~outcome.value.content.some
        /\ response.body.t = "bytes" =>
              /\ outcome.status = "returned"
              /\ outcome.value.t = "Result"
              /\ outcome.value.content.some
              /\ outcome.value.content.v = response.body
              /\ ~outcome.value.records.some
C4_Witness ==
    /\ LatestAnswered
    /\ IsListOfRecords(response.body)
    /\ Len(response.body.val.items) = 2
    /\ outcome.status = "returned"

\* C5: every Result a latest lookup returns has exactly one of content and
\* records set (not None), whatever the successful response was.
C5_ExactlyOneVariant ==
    (pc = "done" /\ call.op \in LatestOps /\ outcome.status = "returned")
    => /\ outcome.value.t = "Result"
       /\ outcome.value.content.some # outcome.value.records.some
C5_Witness ==
    /\ LatestAnswered
    /\ response.body = Json(JObject(<<>>))
    /\ outcome.status = "returned"
    /\ outcome.value.records.some

\* C6: two calls of one operation with the same set of tags, given in any
\* order, issue the same path: the path sent for the tags of this call is
\* the path of every reordering of them.
C6_TagPath_OrderIndependent ==
    (Sent /\ call.op # "get_blob" /\ Len(call.tags) > 0)
    => \A other \in TagLists :
          (Len(other) = Len(call.tags) /\ Range(other) = Range(call.tags))
          => TagPath = join(<<"/">>, other)
                       \o (IF call.op \in SupersetOps THEN <<"/">> ELSE <<>>)

\* where s has the marker m
Occurrences(s, m) == {i \in 1..(Len(s) - Len(m) + 1) : SubSeq(s, i, i + Len(m) - 1) = m}
Max(S) == CHOOSE x \in S : \A y \in S : y <= x
Min(S) == CHOOSE x \in S : \A y \in S : x <= y
\* the index after the last marker of ms in s (1 when there is none)
AfterLastMarker(s, ms) ==
    Max({1} \cup UNION {{i + Len(m) : i \in Occurrences(s, m)} : m \in ms})
\* the index after the last '/blob/' met by a left-to-right scan that
\* resumes behind each marker it finds
RECURSIVE ScanBlob(_, _)
ScanBlob(s, from) ==
    LET later == {i \in Occurrences(s, BLOB_SEP) : i >= from}
    IN IF later = {} THEN from ELSE ScanBlob(s, Min(later) + Len(BLOB_SEP))
NoOverlap(s) ==
    \A i, j \in Occurrences(s, BLOB_SEP) : i < j => i + Len(BLOB_SEP) <= j

PutAnswered ==
    /\ pc = "done" /\ call.op = "put_latest" /\ RequestCount >= 1
    /\ Succeeded(LastAttempt) /\ response.headers.Location.some
Location == response.headers.Location.v

\* C7 as stated: the reference put_latest returns is what follows the last
\* '/blob/' or '/cas/' marker of the Location header.
C7_RefAfterLastBlobOrCas ==
    PutAnswered =>
        /\ outcome.status = "returned"
        /\ outcome.value.s =
             SubSeq(Location, AfterLastMarker(Location, {BLOB_SEP, CAS_SEP}), Len(Location))

\* C7, amended: the reference put_latest returns is what follows the last
\* '/blob/' marker found scanning the Location header from the left without
\* overlap, the whole header when it has no '/blob/'; '/cas/' is no marker.
\* When the '/blob/' markers do not overlap, that is the suffix after the
\* last '/blob/'.
C7_RefAfterLastBlob ==
    PutAnswered =>
        /\ outcome.status = "returned"
        /\ outcome.value.t = "str"
        /\ outcome.value.s = SubSeq(Location, ScanBlob(Location, 1), Len(Location))
        /\ NoOverlap(Location) =>
             outcome.value.s = SubSeq(Location, AfterLastMarker(Location, {BLOB_SEP}), Len(Location))
        /\ Occurrences(Location, BLOB_SEP) = {} => outcome.value.s = Location
C7_Witness ==
    /\ PutAnswered
    /\ Occurrences(Location, BLOB_SEP) # {}
    /\ Occurrences(Location, CAS_SEP) # {}
    /\ outcome.status = "returned"
    /\ outcome.value.s = <<"x">> \o CAS_SEP \o REF1

\* the tags laid out one after the other from the start of path p, a '/'
\* between neighbours and, if trailing, one more '/' after the last
RECURSIVE TotalLen(_)
TotalLen(tags) == IF Len(tags) = 0 THEN 0 ELSE Len(tags[1]) + TotalLen(Tail(tags))
StartOf(tags, i) == 1 + TotalLen(SubSeq(tags, 1, i - 1)) + (i - 1)
LaidOut(p, tags, trailing) ==
    /\ Len(p) = IF Len(tags) = 0 THEN 0
                ELSE TotalLen(tags) + (Len(tags) - 1) + (IF trailing THEN 1 ELSE 0)
    /\ \A i \in 1..Len(tags) :
          /\ SubSeq(p, StartOf(tags, i), StartOf(tags, i) + Len(tags[i]) - 1) = tags[i]
          /\ (i < Len(tags) \/ trailing) => p[StartOf(tags, i) + Len(tags[i])] = "/"

\* C8: a superset operation accepts an empty tag set and sends its request
\* to the bare endpoint; with tags its tag path is the joined tags and one
\* trailing '/'. An exact-match operation appends no trailing '/'.
C8_SupersetTrailingSlash ==
    /\ (call.op \in SupersetOps /\ pc # "idle") =>
          /\ Sent
          /\ SubSeq(RequestPath, 1, Len(EndpointOf(call.op))) = EndpointOf(call.op)
          /\ Len(call.tags) = 0 => RequestPath = EndpointOf(call.op)
          /\ LaidOut(TagPath, call.tags, TRUE)
    /\ (call.op \in ExactOps /\ Sent) =>
          /\ SubSeq(RequestPath, 1, Len(EndpointOf(call.op))) = EndpointOf(call.op)
          /\ LaidOut(TagPath, call.tags, FALSE)
C8_Witness ==
    /\ call.op = "get_superset_history"
    /\ call.tags = <<LOG, DEV>>
    /\ RequestCount >= 1
    /\ RequestPath = HISTORY_URI \o LOG \o <<"/">> \o DEV \o <<"/">>

\* C9: a call whose last attempt ends in a status failure raises APIError,
\* and one whose last attempt ends in a transport failure raises the
\* library's ConnectionError. The last error response has a documented body.
C9_TerminalFailureKinds ==
    (pc = "done" /\ RequestCount >= 1 /\ ~Succeeded(LastAttempt)
        /\ (StatusFailure(LastAttempt) => DocumentedErrorBody(response.body)))
    => /\ outcome.status = "raised"
       /\ StatusFailure(LastAttempt) => outcome.exc = "APIError"
       /\ TransportFailure(LastAttempt) => outcome.exc = "ConnectionError"

\* C10: a terminal error response whose JSON body has kind, message and
\* statuscode, with or without err, becomes an APIError that carries the
\* status code, the kind and the message.
C10_APIErrorDecoded ==
    (pc = "done" /\ RequestCount >= 1 /\ StatusFailure(LastAttempt)
        /\ DocumentedErrorBody(response.body))
    => /\ outcome.status = "raised"
       /\ outcome.exc = "APIError"
       /\ outcome.statuscode = response.body.val.fields.statuscode
       /\ outcome.kind = response.body.val.fields.kind
       /\ "message" \in DOMAIN outcome
       /\ outcome.message = response.body.val.fields.message

----------------------------------------------------------------------------
(* C11 .. C18 *)

\* the failure kinds the client documents: ConnectionError (transport),
\* APIError, ValueError (invalid argument), and, for a body that does not
\* decode, JSONDecodeError and iso8601.ParseError
DocumentedKinds ==
    {"ConnectionError", "APIError", "ValueError", "JSONDecodeError", "iso8601.ParseError"}

\* C11: whatever the body of a successful response is, the operation
\* returns its result or fails with one of the documented kinds. (A
\* put_latest response is taken to carry its Location header.)
C11_OnlyDocumentedFailures ==
    (pc = "done" /\ RequestCount >= 1 /\ Succeeded(LastAttempt)
        /\ (call.op = "put_latest" => response.headers.Location.some))
    => \/ outcome.status = "returned"
       \/ outcome.status = "raised" /\ outcome.exc \in DocumentedKinds

\* C12 as stated: a client with retry budget 0 does not exist, so none of
\* its operations ever runs or sends a request.
C12_ZeroBudgetRejected ==
    retries = 0 => (pc = "idle" /\ ~Sent /\ RequestCount = 0)

\* C12, amended: a retry budget of 0 is accepted at construction and acts
\* as a budget of 1: an operation that sends issues exactly one request,
\* never a second one, and a 2xx answer to it is not turned into a failure
\* by the budget.
C12_ZeroBudgetOneAttempt ==
    retries = 0 =>
        /\ RequestCount <= 1
        /\ pc = "requesting" => RequestCount = 0
        /\ pc # "sleeping"
        /\ (pc = "done" /\ Sent) => RequestCount = 1
        /\ (pc = "done" /\ Sent /\ Succeeded(LastAttempt) /\ call.op \in DeleteOps \cup {"get_blob"})
              => outcome.status = "returned"
C12_Witness ==
    /\ retries = 0
    /\ pc = "done"
    /\ RequestCount = 1
    /\ call.op = "get_blob"
    /\ outcome.status = "returned"

\* a lookup that returned records for a JSON list
ListReturned ==
    /\ pc = "done" /\ call.op \in LatestOps \cup HistoryOps
    /\ RequestCount >= 1 /\ Succeeded(LastAttempt)
    /\ response.body.t = "json" /\ response.body.val.t = "list"
    /\ outcome.status = "returned"
ReturnedRecords ==
    IF call.op \in LatestOps THEN outcome.value.records.v ELSE outcome.value.records
SentItems == response.body.val.items

\* C13: the i-th record returned is the decoding of the i-th element of the
\* server's list; none is dropped, repeated or moved.
C13_RecordOrderPreserved ==
    ListReturned =>
        /\ Len(ReturnedRecords) = Len(SentItems)
        /\ \A i \in 1..Len(SentItems) :
              /\ ReturnedRecords[i].ref = SentItems[i].fields.ref
              /\ ReturnedRecords[i].created.some
              /\ ReturnedRecords[i].created.v = parse_date(SentItems[i].fields.created).v
C13_Witness ==
    /\ ListReturned
    /\ call.op = "get_history"
    /\ Len(SentItems) = 2
    /\ SentItems[1].fields.ref = REF1
    /\ SentItems[2].fields.ref = REF2
    /\ ReturnedRecords[2].ref = REF2

\* C14: the tags of a decoded record are the set of the tags of the JSON
\* element, so a tag the element repeats is held once; ref is passed through.
C14_TagsCoercedToSet ==
    ListReturned =>
        \A i \in 1..Len(SentItems) :
            /\ ReturnedRecords[i].ref = SentItems[i].fields.ref
            /\ Range(ReturnedRecords[i].tags) = Range(SentItems[i].fields.tags)
            /\ Len(ReturnedRecords[i].tags) = Cardinality(Range(SentItems[i].fields.tags))

StartsWith(s, prefix) == Len(s) >= Len(prefix) /\ SubSeq(s, 1, Len(prefix)) = prefix
MethodOf(op) ==
    IF op = "put_latest" THEN "PUT" ELSE IF op \in DeleteOps THEN "DELETE" ELSE "GET"

\* C15: when the first attempt is answered with a 2xx response, the call
\* has issued exactly one request, with the method and the path of the
\* operation table, behind the base address.
C15_OneRequestPerTable ==
    (RequestCount >= 1 /\ Succeeded(trace[1])) =>
        /\ RequestCount = 1
        /\ pc = "done"
        /\ request.method = MethodOf(call.op)
        /\ StartsWith(request.url, addr)
        /\ StartsWith(RequestPath, EndpointOf(call.op))
        /\ IF call.op = "get_blob" THEN TagPath = call.ref
           ELSE LaidOut(TagPath, call.tags, call.op \in SupersetOps)
C15_Witness ==
    /\ pc = "done"
    /\ call.op = "delete_history"
    /\ call.tags = <<LOG>>
    /\ RequestCount = 1
    /\ Succeeded(trace[1])
    /\ request.method = "DELETE"
    /\ outcome.status = "returned"

\* C16: the attempt that succeeds is the last one of the call: no request
\* follows it, the call is over with the k requests issued so far, k within
\* the budget, and what it gives back comes from the k-th response.
C16_StopAtFirstSuccess ==
    /\ \A i \in 1..(RequestCount - 1) : ~Succeeded(trace[i])
    /\ (RequestCount >= 1 /\ Succeeded(LastAttempt)) =>
          /\ pc = "done"
          /\ RequestCount = attempt_number
          /\ RequestCount <= (IF retries = 0 THEN 1 ELSE retries)
          /\ response.status_code = LastAttempt.status_code
          /\ outcome.status # "pending"
          /\ call.op = "get_blob" =>
                outcome = Returned([t |-> "BytesIO", content |-> response.body])
C16_Witness ==
    /\ pc = "done"
    /\ retries = 3
    /\ RequestCount = 2
    /\ RetryableFailure(trace[1])
    /\ Succeeded(trace[2])
    /\ call.op = "get_blob"
    /\ outcome.status = "returned"

\* The client's own steps are taken: time.sleep(0.0) returns and the loop
\* goes on. When an attempt in flight ends is the server's choice (the
\* connect and read timeouts bound a silence, not the attempt), so there is
\* no fairness on HTTPClient_request.
FairSpec == Spec /\ WF_vars(sleep)

AttemptBudget == IF retries = 0 THEN 1 ELSE retries

\* each single transport attempt terminates
AttemptsEnd == (pc = "requesting") ~> (pc # "requesting")

\* C17: given that each single transport attempt terminates, every call
\* that has sent returns or raises in the end, after at most max(N, 1)
\* transport attempts, for every budget N >= 0 and every server behaviour.
C17_Terminates ==
    /\ [](RequestCount <= AttemptBudget)
    /\ AttemptsEnd =>
          ((pc \in {"requesting", "sleeping"}) ~> (pc = "done" /\ outcome.status # "pending"))
C17_Witness ==
    /\ pc = "done"
    /\ retries = 3
    /\ RequestCount = 3
    /\ \A i \in 1..3 : trace[i].net = "ConnectionError"
    /\ outcome = Raised("ConnectionError")

\* every caller of the client: the one that has the turn and the waiting ones
Callers == {Regs} \cup Range(th)

\* the request a lone call of the operation table sends
AloneHeaders(op) ==
    IF op = "get_blob" THEN Accept("application/octet-stream")
    ELSE IF op \in LatestOps \cup HistoryOps THEN Accept("application/json")
    ELSE EmptyDict
AlonePath(c) ==
    IF c.op = "get_blob" THEN c.ref
    ELSE join(<<"/">>, c.tags)
         \o (IF c.op \in SupersetOps /\ Len(c.tags) > 0 THEN <<"/">> ELSE <<>>)
AloneRequest(c) ==
    [method |-> MethodOf(c.op), url |-> addr \o EndpointOf(c.op) \o AlonePath(c),
     params |-> EmptyDict, headers |-> AloneHeaders(c.op), data |-> c.op = "put_latest"]

\* the outcome a lone call has after the same attempts and the same last
\* response
AloneOutcome(l) ==
    LET last == l.trace[Len(l.trace)]
        got == APIClient_request(do_request([net |-> last.net, response |-> l.response]))
    IN IF got.ok THEN operation_return(l.call.op, got.response) ELSE got.raised

\* a caller's frames are those of the same call run alone: its request,
\* its count of attempts, and, once it is done, its outcome
AsAlone(l) ==
    /\ (l.pc = "idle") <=> (l.call = NoCall)
    /\ (l.request # NoRequest) =>
          /\ l.request = AloneRequest(l.call)
          /\ Len(l.trace) <= (IF retries = 0 THEN 1 ELSE retries)
          /\ \A i \in 1..(Len(l.trace) - 1) : RetryableFailure(l.trace[i])
          /\ (l.pc \in {"requesting", "sleeping"}) <=> (l.outcome = Pending)
          /\ (l.pc = "requesting") => l.attempt_number = Len(l.trace) + 1
          /\ (l.pc = "sleeping") =>
                /\ l.attempt_number = Len(l.trace)
                /\ RetryableFailure(l.trace[Len(l.trace)])
          /\ (l.pc = "done") => /\ Len(l.trace) >= 1
                                /\ l.outcome = AloneOutcome(l)
    /\ (l.request = NoRequest /\ l.pc = "done") =>
          l.call.op = "put_latest" /\ l.outcome = Raised("ValueError")

\* C18: under every interleaving of the calls of two callers on one client,
\* no step changes the base address, the retry budget or the default params
\* and headers dicts of APIClient.request, the default dicts stay empty, and
\* every caller's request and outcome are those of the same call run alone.
C18_CallsDoNotInterfere ==
    /\ [][shared' = shared]_vars
    /\ [](default_params = EmptyDict /\ default_headers = EmptyDict)
    /\ [](\A l \in Callers : AsAlone(l))
C18_Witness ==
    /\ pc = "done"
    /\ call.op = "put_latest"
    /\ request.headers = EmptyDict
    /\ outcome = Returned([t |-> "str", s |-> REF1])
    /\ th[1].pc = "sleeping"
    /\ th[1].call.op = "get_latest"
    /\ th[1].request.headers = Accept("application/json")
    /\ Len(th[1].trace) = 1
    /\ th[1].attempt_number = 1

====
